---- MODULE Spec2Model ----
(***************************************************************************)
(* A model of pagerduty-rs: the Events V2 client.  A caller builds an      *)
(* Event, EventsV2::event enriches it into a sendable envelope, do_post    *)
(* serializes the envelope to JSON, posts it and classifies the response.  *)
(*                                                                         *)
(* Rust values are modelled as follows:                                    *)
(*   String            a TLA+ string                                       *)
(*   Option<T>         None is << >>, Some(v) is << v >>                   *)
(*   Vec<T>            a sequence                                          *)
(*   struct            a record with the struct's field names              *)
(*   OffsetDateTime    [secs, nanos, offset]: whole seconds since the Unix *)
(*                     epoch, the sub-second nanoseconds and the UTC       *)
(*                     offset in seconds                                   *)
(*   Result of serde   [ok |-> TRUE, out |-> json] or [ok |-> FALSE, ...]  *)
(***************************************************************************)
EXTENDS Integers, Sequences, FiniteSets, TLC

VARIABLES
    build,            \* the code in use: "eventsv2" is the file eventsv2.rs with
                      \* its own types; "blocking" and "async" are the crate of
                      \* lib.rs with feature "async" off and on (types.rs).
                      \* The sources hold no eventsv2sync.rs: "blocking" runs
                      \* the event and do_post that eventsv2.rs and
                      \* eventsv2async.rs share word for word.
    integration_key,  \* EventsV2.integration_key
    user_agent,       \* EventsV2.user_agent : Option<String>
    pc,               \* per caller: "idle" or "waiting" (inside send_string)
    event,            \* per caller: the Event its current/last call was given
    envelope,         \* per caller: the sendable envelope built from it
    request,          \* per caller: Option of the HTTP request handed to ureq
    response,         \* per caller: Option of the outcome send_string gave
    result,           \* per caller: Option of the EventsV2Result returned
    calls,            \* number of event() calls started
    posts             \* number of HTTP requests handed to the transport

vars == << build, integration_key, user_agent, pc, event, envelope,
           request, response, result, calls, posts >>

-----------------------------------------------------------------------------
(* Option<T> *)

None == << >>

Some(v) == << v >>

IsNone(o) == o = << >>

IsSome(o) == o # << >>

Unwrap(o) == o[1]

-----------------------------------------------------------------------------
(* Header names and values, and the two endpoints *)

CONTENT_TYPE == "content-type"

USER_AGENT == "user-agent"

CONTENT_ENCODING == "content-encoding"

CONTENT_ENCODING_IDENTITY == "identity"

CONTENT_TYPE_JSON == "application/json"

ChangeUrl == "https://events.pagerduty.com/v2/change/enqueue"

AlertUrl == "https://events.pagerduty.com/v2/enqueue"

\* The lengths the service documents as the most it permits for summary and
\* for dedup_key (doc comments of the fields); no code refers to them.
SummaryLimit == 1024

DedupKeyLimit == 255

-----------------------------------------------------------------------------
(* serde / serde_json results and primitives *)

SerOk(s) == [ok |-> TRUE, out |-> s]

SerErr(why) == [ok |-> FALSE, out |-> why]

\* A JSON string.  The strings of the model hold no character that needs
\* escaping.
JsonStr(s) == SerOk("\"" \o s \o "\"")

\* One struct field after #[serde(skip_serializing_if)] has been applied.
Field(k, v) == [key |-> k, val |-> v]

\* A field that is skipped when the Option is None; `ser` is the serialized
\* inner value.
OptField(k, o, ser) == IF IsNone(o) THEN << >> ELSE << Field(k, ser) >>

RECURSIVE JoinFields(_)
\* "k1":v1,"k2":v2,... for fields that all serialized
JoinFields(fs) ==
    IF fs = << >> THEN ""
    ELSE LET f == Head(fs)
             one == "\"" \o f.key \o "\":" \o f.val.out
         IN  IF Len(fs) = 1 THEN one ELSE one \o "," \o JoinFields(Tail(fs))

RECURSIVE FirstErr(_)
\* the first failing element of a sequence of results, or << >>
FirstErr(rs) ==
    IF rs = << >> THEN << >>
    ELSE IF ~Head(rs).ok THEN << Head(rs) >> ELSE FirstErr(Tail(rs))

\* serde's derived Serialize for a struct: fields in declaration order, the
\* first field error aborts the whole serialization.
SerializeStruct(fs) ==
    LET e == FirstErr([i \in 1..Len(fs) |-> fs[i].val])
    IN  IF e # << >> THEN e[1] ELSE SerOk("{" \o JoinFields(fs) \o "}")

RECURSIVE JoinItems(_)
JoinItems(rs) ==
    IF rs = << >> THEN ""
    ELSE IF Len(rs) = 1 THEN Head(rs).out
    ELSE Head(rs).out \o "," \o JoinItems(Tail(rs))

\* serde_json for a Vec: [item,item,...]
SerializeSeq(rs) ==
    LET e == FirstErr(rs)
    IN  IF e # << >> THEN e[1] ELSE SerOk("[" \o JoinItems(rs) \o "]")

-----------------------------------------------------------------------------
(* Timestamps *)

\* Mutant: numbers are written without padding.
Pad_NoPadding(n, w) == ToString(n)

RECURSIVE Pad(_, _)
\* n >= 0 in decimal, zero-padded on the left to at least w digits
Pad(n, w) ==
    IF w <= 1 \/ Len(ToString(n)) >= w THEN ToString(n)
    ELSE "0" \o Pad(n, w - 1)

\* The date and time of day an OffsetDateTime shows: the instant shifted by
\* the value's own offset (OffsetDateTime::date / ::time), days to civil date
\* as in the time crate.
LocalParts(d) ==
    LET local == d.secs + d.offset
        days  == local \div 86400
        sod   == local % 86400
        z     == days + 719468
        era   == z \div 146097
        doe   == z - era * 146097
        yoe   == (doe - doe \div 1460 + doe \div 36524 - doe \div 146096) \div 365
        doy   == doe - (365 * yoe + yoe \div 4 - yoe \div 100)
        mp    == (5 * doy + 2) \div 153
        m     == IF mp < 10 THEN mp + 3 ELSE mp - 9
    IN  [ year   |-> yoe + era * 400 + (IF m <= 2 THEN 1 ELSE 0),
          month  |-> m,
          day    |-> doy - (153 * mp + 2) \div 5 + 1,
          hour   |-> sod \div 3600,
          minute |-> (sod % 3600) \div 60,
          second |-> sod % 60 ]

\* YYYY-MM-DDTHH:MM:SS of the value's local date and time
DateTimeText(d) ==
    LET p == LocalParts(d)
    IN  Pad(p.year, 4) \o "-" \o Pad(p.month, 2) \o "-" \o Pad(p.day, 2)
        \o "T" \o Pad(p.hour, 2) \o ":" \o Pad(p.minute, 2)
        \o ":" \o Pad(p.second, 2)

\* eventsv2.rs: d.format("%FT%T.%NZ") -- the local date and time, nine
\* digits of nanoseconds and a literal Z.  It cannot fail.
FormatStrftime(d) == DateTimeText(d) \o "." \o Pad(d.nanos, 9) \o "Z"

RECURSIVE TrimFrac(_, _)
\* the sub-second digits of RFC 3339 output: trailing zeros dropped
TrimFrac(n, w) ==
    IF n % 10 # 0 \/ w = 1 THEN Pad(n, w) ELSE TrimFrac(n \div 10, w - 1)

\* The offset suffix of RFC 3339 output.
OffsetText(off) ==
    IF off = 0 THEN "Z"
    ELSE LET a == IF off < 0 THEN -off ELSE off
         IN  (IF off < 0 THEN "-" ELSE "+")
             \o Pad(a \div 3600, 2) \o ":" \o Pad((a % 3600) \div 60, 2)

\* Display of time::error::Format::InvalidComponent(name), the text that
\* format!("{}", e) hands to SerializeError::custom.
InvalidComponent(name) ==
    "The " \o name
    \o " component cannot be formatted into the requested format."

\* types.rs: d.format(&Rfc3339) -- fails for a year outside 0..9999, then
\* for an offset of more than 23 whole hours, then for an offset that has a
\* seconds part.
FormatRfc3339(d) ==
    LET a == IF d.offset < 0 THEN -d.offset ELSE d.offset
    IN  IF LocalParts(d).year < 0 \/ LocalParts(d).year > 9999
        THEN SerErr(InvalidComponent("year"))
        ELSE IF a \div 3600 > 23 THEN SerErr(InvalidComponent("offset_hour"))
        ELSE IF a % 60 # 0 THEN SerErr(InvalidComponent("offset_second"))
        ELSE SerOk(DateTimeText(d)
                   \o (IF d.nanos # 0 THEN "." \o TrimFrac(d.nanos, 9) ELSE "")
                   \o OffsetText(d.offset))

\* Which file's types a build serializes.  lib.rs compiles types.rs with
\* feature "async" off ("blocking") and on ("async") alike; eventsv2.rs
\* ("eventsv2") is in no module tree and brings its own types.
Crate == {"blocking", "async"}

UsesTypesRs(b) == b \in Crate

Builds == Crate \cup {"eventsv2"}

\* datetime_to_iso8601 of the build's types: serialize_str of the formatted
\* text, or the format error as a serializer error.
datetime_to_iso8601(b, d) ==
    IF UsesTypesRs(b)
    THEN LET r == FormatRfc3339(d)
         IN  IF r.ok THEN JsonStr(r.out) ELSE r
    ELSE JsonStr(FormatStrftime(d))

\* optional_datetime_to_iso8601: serialize_none for None.
optional_datetime_to_iso8601(b, od) ==
    IF IsSome(od) THEN datetime_to_iso8601(b, Unwrap(od)) ELSE SerOk("null")

-----------------------------------------------------------------------------
(* Event model: serialization *)

\* Mutant: the variant's name is written as declared, without rename_all.
SerializeSeverity_VariantName(s) == JsonStr(s)

\* #[serde(rename_all = "lowercase")] enum Severity
SerializeSeverity(s) ==
    JsonStr(CASE s = "Info"     -> "info"
              [] s = "Warning"  -> "warning"
              [] s = "Error"    -> "error"
              [] s = "Critical" -> "critical")

\* Mutant: the serializer has no token for Resolve.
SerializeAction_NoResolve(a) ==
    IF a = "Resolve" THEN SerErr("unknown variant")
    ELSE JsonStr(CASE a = "Trigger"     -> "trigger"
                   [] a = "Acknowledge" -> "acknowledge")

\* #[serde(rename_all = "lowercase")] enum Action
SerializeAction(a) ==
    JsonStr(CASE a = "Trigger"     -> "trigger"
              [] a = "Acknowledge" -> "acknowledge"
              [] a = "Resolve"     -> "resolve")

\* custom_details: T, any T: Serialize.  Three caller types stand for T:
\*   SerializableTest { some_field: String, another_field: usize }
\*   ()                     which serde_json writes as null
\*   a type serde_json cannot encode (a map whose keys are not strings)
SerializeCustomDetails(cd) ==
    CASE cd.type = "SerializableTest" ->
            SerializeStruct(<< Field("some_field", JsonStr(cd.some_field)),
                               Field("another_field", SerOk(ToString(cd.another_field))) >>)
      [] cd.type = "unit" -> SerOk("null")
      [] cd.type = "unencodable" -> SerErr("key must be a string")

LinkFields(l) ==
    << Field("href", JsonStr(l.href)) >>
    \o OptField("text", l.text, JsonStr(Unwrap(l.text)))

SerializeLink(l) == SerializeStruct(LinkFields(l))

SerializeLinks(ls) == SerializeSeq([i \in 1..Len(ls) |-> SerializeLink(ls[i])])

ImageFields(im) ==
    << Field("src", JsonStr(im.src)) >>
    \o OptField("href", im.href, JsonStr(Unwrap(im.href)))
    \o OptField("alt", im.alt, JsonStr(Unwrap(im.alt)))

SerializeImage(im) == SerializeStruct(ImageFields(im))

SerializeImages(is) == SerializeSeq([i \in 1..Len(is) |-> SerializeImage(is[i])])

ChangePayloadFields(b, p) ==
    << Field("summary", JsonStr(p.summary)),
       Field("timestamp", datetime_to_iso8601(b, p.timestamp)) >>
    \o OptField("source", p.source, JsonStr(Unwrap(p.source)))
    \o OptField("custom_details", p.custom_details,
                SerializeCustomDetails(Unwrap(p.custom_details)))

SerializeChangePayload(b, p) == SerializeStruct(ChangePayloadFields(b, p))

\* Mutant: timestamp without skip_serializing_if.
AlertTriggerPayloadFields_TimestampNotSkipped(b, p) ==
    << Field("severity", SerializeSeverity(p.severity)),
       Field("summary", JsonStr(p.summary)),
       Field("source", JsonStr(p.source)),
       Field("timestamp", optional_datetime_to_iso8601(b, p.timestamp)) >>
    \o OptField("component", p.component, JsonStr(Unwrap(p.component)))
    \o OptField("group", p.group, JsonStr(Unwrap(p.group)))
    \o OptField("class", p.class, JsonStr(Unwrap(p.class)))
    \o OptField("custom_details", p.custom_details,
                SerializeCustomDetails(Unwrap(p.custom_details)))

AlertTriggerPayloadFields(b, p) ==
    << Field("severity", SerializeSeverity(p.severity)),
       Field("summary", JsonStr(p.summary)),
       Field("source", JsonStr(p.source)) >>
    \o OptField("timestamp", p.timestamp,
                optional_datetime_to_iso8601(b, p.timestamp))
    \o OptField("component", p.component, JsonStr(Unwrap(p.component)))
    \o OptField("group", p.group, JsonStr(Unwrap(p.group)))
    \o OptField("class", p.class, JsonStr(Unwrap(p.class)))
    \o OptField("custom_details", p.custom_details,
                SerializeCustomDetails(Unwrap(p.custom_details)))

SerializeAlertTriggerPayload(b, p) ==
    SerializeStruct(AlertTriggerPayloadFields(b, p))

\* #[derive(Serialize)] struct Change { payload, links }: the caller's own
\* value, as serde writes it
ChangeFields(b, c) ==
    << Field("payload", SerializeChangePayload(b, c.payload)) >>
    \o OptField("links", c.links, SerializeLinks(Unwrap(c.links)))

\* #[derive(Serialize)] struct AlertTrigger { payload, dedup_key, images,
\* links, client, client_url }
AlertTriggerFields(b, at) ==
    << Field("payload", SerializeAlertTriggerPayload(b, at.payload)) >>
    \o OptField("dedup_key", at.dedup_key, JsonStr(Unwrap(at.dedup_key)))
    \o OptField("images", at.images, SerializeImages(Unwrap(at.images)))
    \o OptField("links", at.links, SerializeLinks(Unwrap(at.links)))
    \o OptField("client", at.client, JsonStr(Unwrap(at.client)))
    \o OptField("client_url", at.client_url, JsonStr(Unwrap(at.client_url)))

-----------------------------------------------------------------------------
(* Enrichment: the sendable envelopes *)

\* SendableChange { routing_key, payload, links }
SendableChangeFields(b, e) ==
    << Field("routing_key", JsonStr(e.routing_key)),
       Field("payload", SerializeChangePayload(b, e.payload)) >>
    \o OptField("links", e.links, SerializeLinks(Unwrap(e.links)))

\* Mutant: event_action declared last in the struct.
SendableAlertTriggerFields_ActionLast(b, e) ==
    << Field("routing_key", JsonStr(e.routing_key)),
       Field("payload", SerializeAlertTriggerPayload(b, e.payload)) >>
    \o OptField("dedup_key", e.dedup_key, JsonStr(Unwrap(e.dedup_key)))
    \o OptField("images", e.images, SerializeImages(Unwrap(e.images)))
    \o OptField("links", e.links, SerializeLinks(Unwrap(e.links)))
    \o OptField("client", e.client, JsonStr(Unwrap(e.client)))
    \o OptField("client_url", e.client_url, JsonStr(Unwrap(e.client_url)))
    \o << Field("event_action", SerializeAction(e.event_action)) >>

\* SendableAlertTrigger { routing_key, payload, dedup_key, images, links,
\*                        event_action, client, client_url }
SendableAlertTriggerFields(b, e) ==
    << Field("routing_key", JsonStr(e.routing_key)),
       Field("payload", SerializeAlertTriggerPayload(b, e.payload)) >>
    \o OptField("dedup_key", e.dedup_key, JsonStr(Unwrap(e.dedup_key)))
    \o OptField("images", e.images, SerializeImages(Unwrap(e.images)))
    \o OptField("links", e.links, SerializeLinks(Unwrap(e.links)))
    \o << Field("event_action", SerializeAction(e.event_action)) >>
    \o OptField("client", e.client, JsonStr(Unwrap(e.client)))
    \o OptField("client_url", e.client_url, JsonStr(Unwrap(e.client_url)))

\* SendableAlertFollowup { routing_key, dedup_key, event_action }
SendableAlertFollowupFields(e) ==
    << Field("routing_key", JsonStr(e.routing_key)),
       Field("dedup_key", JsonStr(e.dedup_key)),
       Field("event_action", SerializeAction(e.event_action)) >>

\* The top-level fields of an envelope, in the order serde writes them.
EnvelopeFields(b, e) ==
    CASE e.kind = "SendableChange"        -> SendableChangeFields(b, e)
      [] e.kind = "SendableAlertTrigger"  -> SendableAlertTriggerFields(b, e)
      [] e.kind = "SendableAlertFollowup" -> SendableAlertFollowupFields(e)

\* serde_json::to_string(&content)
to_string(b, e) == SerializeStruct(EnvelopeFields(b, e))

\* Mutant: the change's links are not carried over.
change_DropsLinks(key, c) ==
    [ url     |-> ChangeUrl,
      content |-> [ kind        |-> "SendableChange",
                    routing_key |-> key,
                    links       |-> None,
                    payload     |-> c.payload ] ]

\* EventsV2::change: the envelope and the endpoint it is posted to
change(key, c) ==
    [ url     |-> ChangeUrl,
      content |-> [ kind        |-> "SendableChange",
                    routing_key |-> key,
                    links       |-> c.links,
                    payload     |-> c.payload ] ]

\* Mutant: the trigger posted to the change endpoint.
alert_trigger_ToChangeEndpoint(key, at) ==
    [ url     |-> ChangeUrl,
      content |-> [ kind         |-> "SendableAlertTrigger",
                    routing_key  |-> key,
                    event_action |-> "Trigger",
                    dedup_key    |-> at.dedup_key,
                    images       |-> at.images,
                    links        |-> at.links,
                    payload      |-> at.payload,
                    client       |-> at.client,
                    client_url   |-> at.client_url ] ]

\* EventsV2::alert_trigger
alert_trigger(key, at) ==
    [ url     |-> AlertUrl,
      content |-> [ kind         |-> "SendableAlertTrigger",
                    routing_key  |-> key,
                    event_action |-> "Trigger",
                    dedup_key    |-> at.dedup_key,
                    images       |-> at.images,
                    links        |-> at.links,
                    payload      |-> at.payload,
                    client       |-> at.client,
                    client_url   |-> at.client_url ] ]

\* Mutant: the follow-up built with routing_key and dedup_key exchanged.
alert_followup_KeysSwapped(key, dedup_key, action) ==
    [ url     |-> AlertUrl,
      content |-> [ kind         |-> "SendableAlertFollowup",
                    routing_key  |-> dedup_key,
                    event_action |-> action,
                    dedup_key    |-> key ] ]

\* Mutant: a dedup_key longer than the documented limit is cut to the limit.
alert_followup_TruncatesDedupKey(key, dedup_key, action) ==
    [ url     |-> AlertUrl,
      content |-> [ kind         |-> "SendableAlertFollowup",
                    routing_key  |-> key,
                    event_action |-> action,
                    dedup_key    |-> IF Len(dedup_key) > DedupKeyLimit
                                     THEN SubSeq(dedup_key, 1, DedupKeyLimit)
                                     ELSE dedup_key ] ]

\* EventsV2::alert_followup
alert_followup(key, dedup_key, action) ==
    [ url     |-> AlertUrl,
      content |-> [ kind         |-> "SendableAlertFollowup",
                    routing_key  |-> key,
                    event_action |-> action,
                    dedup_key    |-> dedup_key ] ]

\* Mutant: the two follow-up arms carry each other's action.
Dispatch_FollowupActionsSwapped(key, ev) ==
    CASE ev.variant = "Change"           -> change(key, ev.body)
      [] ev.variant = "AlertTrigger"     -> alert_trigger(key, ev.body)
      [] ev.variant = "AlertAcknowledge" ->
             alert_followup(key, ev.body.dedup_key, "Resolve")
      [] ev.variant = "AlertResolve"     ->
             alert_followup(key, ev.body.dedup_key, "Acknowledge")

\* EventsV2::event: the match over the four variants
Dispatch(key, ev) ==
    CASE ev.variant = "Change"           -> change(key, ev.body)
      [] ev.variant = "AlertTrigger"     -> alert_trigger(key, ev.body)
      [] ev.variant = "AlertAcknowledge" ->
             alert_followup(key, ev.body.dedup_key, "Acknowledge")
      [] ev.variant = "AlertResolve"     ->
             alert_followup(key, ev.body.dedup_key, "Resolve")

-----------------------------------------------------------------------------
(* Transport and response classification *)

\* Duration::from_secs(300)
TimeoutSecs == 300

\* The status PagerDuty answers an accepted event with.
Accepted == 202

\* Mutant: the user-agent header is never set.
BuildRequest_NoUserAgent(url, ua, jsonstr) ==
    [ method  |-> "POST",
      url     |-> url,
      headers |-> << << CONTENT_TYPE, CONTENT_TYPE_JSON >>,
                     << CONTENT_ENCODING, CONTENT_ENCODING_IDENTITY >> >>,
      timeout |-> TimeoutSecs,
      body    |-> jsonstr ]

\* do_post up to send_string: the request handed to ureq.  The user-agent
\* header is set only when the client has one.
BuildRequest(url, ua, jsonstr) ==
    [ method  |-> "POST",
      url     |-> url,
      headers |-> << << CONTENT_TYPE, CONTENT_TYPE_JSON >>,
                     << CONTENT_ENCODING, CONTENT_ENCODING_IDENTITY >> >>
                  \o (IF IsSome(ua) THEN << << USER_AGENT, Unwrap(ua) >> >>
                      ELSE << >>),
      timeout |-> TimeoutSecs,
      body    |-> jsonstr ]

\* Mutant: every status from 400 up counts as an HTTP error.
IsErrorStatus_NoUpperBound(resp) == resp.status >= 400

\* ureq Response::error(): a 4xx or 5xx status
IsErrorStatus(resp) == resp.status >= 400 /\ resp.status < 600

\* Mutant: error() is tested before synthetic().
Classify_ErrorBeforeSynthetic(resp) ==
    IF resp.status >= 400 /\ resp.status < 600
    THEN [kind |-> "HttpError", code |-> resp.status]
    ELSE IF resp.synthetic
    THEN [kind |-> "SyntheticUreqError", err |-> resp.error]
    ELSE IF resp.status # 202
    THEN [kind |-> "NotAccepted", code |-> resp.status]
    ELSE [kind |-> "Ok"]

\* Mutant: a 202 counts as accepted only when the response has no body.
Classify_OkNeedsEmptyBody(resp) ==
    IF resp.synthetic
    THEN [kind |-> "SyntheticUreqError", err |-> resp.error]
    ELSE IF resp.status >= 400 /\ resp.status < 600
    THEN [kind |-> "HttpError", code |-> resp.status]
    ELSE IF resp.status # 202 \/ ("body" \in DOMAIN resp /\ resp.body # "")
    THEN [kind |-> "NotAccepted", code |-> resp.status]
    ELSE [kind |-> "Ok"]

\* Mutant: any 2xx status is taken for success.
Classify_Any2xxIsOk(resp) ==
    IF resp.synthetic
    THEN [kind |-> "SyntheticUreqError", err |-> resp.error]
    ELSE IF resp.status >= 400 /\ resp.status < 600
    THEN [kind |-> "HttpError", code |-> resp.status]
    ELSE IF resp.status < 200 \/ resp.status >= 300
    THEN [kind |-> "NotAccepted", code |-> resp.status]
    ELSE [kind |-> "Ok"]

\* do_post after send_string: synthetic() first, then error(), then the
\* comparison with 202.
Classify(resp) ==
    IF resp.synthetic
    THEN [kind |-> "SyntheticUreqError", err |-> resp.error]
    ELSE IF IsErrorStatus(resp)
    THEN [kind |-> "HttpError", code |-> resp.status]
    ELSE IF resp.status # Accepted
    THEN [kind |-> "NotAccepted", code |-> resp.status]
    ELSE [kind |-> "Ok"]

\* impl From<serde_json::Error> for EventsV2Error
FromSerdeError(e) == [kind |-> "SerdeJsonError", err |-> e.out]

\* Mutant: the request is built and sent whether or not serialization
\* succeeded.
DoPostSend_RequestBeforeSerialize(url, ua, js) ==
    [ sent    |-> TRUE,
      request |-> Some(BuildRequest(url, ua, IF js.ok THEN js.out ELSE "")),
      result  |-> None ]

\* do_post from its first line to send_string, given the result js of
\* serde_json::to_string: the ? returns the serialization error before any
\* request exists; otherwise the request is built and sent.
DoPostSend(url, ua, js) ==
    IF js.ok
    THEN [sent |-> TRUE, request |-> Some(BuildRequest(url, ua, js.out)),
          result |-> None]
    ELSE [sent |-> FALSE, request |-> None,
          result |-> Some(FromSerdeError(js))]

-----------------------------------------------------------------------------
(* The inputs of the model *)

\* Bounds.
NumCallers == 2

MaxCalls == 2

MaxMissing == 1

Callers == 1..NumCallers

\* A 32-character key as the service issues them, a shorter one and the
\* empty one.
IntegrationKeys == {"routingkey", "0123456789abcdef0123456789abcdef", ""}

UserAgents == {None, Some("pagerduty-rs test")}

\* 2033-05-18T23:30:04.323Z, as in the crate's tests
T1 == [secs |-> 2000071804, nanos |-> 323000000, offset |-> 0]

\* 2021-05-30T00:00:00Z, as in test_serialization_pads
T2 == [secs |-> 1622332800, nanos |-> 0, offset |-> 0]

\* the instant of T1 seen at UTC+01:00, and at UTC-00:00:30
T3 == [secs |-> 2000071804, nanos |-> 323000000, offset |-> 3600]

T4 == [secs |-> 2000071804, nanos |-> 1, offset |-> -30]

\* 2001-02-03T04:05:06Z: zero sub-second part, every component below ten
T5 == [secs |-> 981173106, nanos |-> 0, offset |-> 0]

\* the instant of T1 seen at UTC+24:00, inside UtcOffset's range of
\* +-25:59:59
T6 == [secs |-> 2000071804, nanos |-> 0, offset |-> 86400]

Timestamps == {T1, T2, T3, T4, T5, T6}

CdStruct == [type |-> "SerializableTest", some_field |-> "Serialize this!",
             another_field |-> 34]

CdUnit == [type |-> "unit"]

CdUnencodable == [type |-> "unencodable"]

CustomDetails == {None, Some(CdStruct), Some(CdUnit), Some(CdUnencodable)}

Link1 == [href |-> "https://polyverse.com", text |-> Some("Polyverse homepage")]

Link2 == [href |-> "https://github.com/polyverse", text |-> None]

Image1 == [src  |-> "https://polyverse.com/static/img/SplashPageIMG/polyverse_blue.png",
           href |-> Some("https://polyverse.com"),
           alt  |-> Some("The Polyverse Logo")]

Image2 == [src |-> "https://polyverse.com/logo.png", href |-> None, alt |-> None]

LinksValues == {None, Some(<< >>), Some(<< Link1 >>), Some(<< Link2, Link1 >>)}

DedupKeys == {"dedupkey1", "DedupkeyFollowup"}

Severities == {"Info", "Warning", "Error", "Critical"}

\* Some(v) when the field's name is in the set of present fields
Opt(name, present, v) == IF name \in present THEN Some(v) ELSE None

\* Change { payload: ChangePayload { summary, timestamp, source,
\*          custom_details }, links }
MkChange(ts, src, cd, links) ==
    [ variant |-> "Change",
      body    |-> [ payload |-> [ summary        |-> "Hello",
                                  timestamp      |-> ts,
                                  source         |-> src,
                                  custom_details |-> cd ],
                    links   |-> links ] ]

ChangeEvents ==
    { MkChange(ts, None, cd, None) : ts \in Timestamps, cd \in CustomDetails }
    \cup { MkChange(T1, src, cd, ls) :
             src \in {None, Some("hostname")},
             cd \in {None, Some(CdStruct)},
             ls \in LinksValues }

\* The optional fields of an AlertTrigger and of its payload.
AlertOptionals ==
    { "timestamp", "component", "group", "class", "custom_details",
      "dedup_key", "images", "links", "client", "client_url" }

\* Which optional fields are present: all but at most MaxMissing of them, or
\* at most MaxMissing of them.
Presences ==
    { P \in SUBSET AlertOptionals :
        \/ Cardinality(P) <= MaxMissing
        \/ Cardinality(AlertOptionals \ P) <= MaxMissing }

\* AlertTrigger { payload: AlertTriggerPayload { severity, summary, source,
\*   timestamp, component, group, class, custom_details },
\*   dedup_key, images, links, client, client_url }
MkAlertTrigger(sev, P, ts, cd, dk, imgs, lnks) ==
    [ variant |-> "AlertTrigger",
      body    |->
        [ payload    |-> [ severity       |-> sev,
                           summary        |-> "Hello",
                           source         |-> "hostname",
                           timestamp      |-> Opt("timestamp", P, ts),
                           component      |-> Opt("component", P, "postgres"),
                           group          |-> Opt("group", P, "prod-datapipe"),
                           class          |-> Opt("class", P, "deploy"),
                           custom_details |-> Opt("custom_details", P, cd) ],
          dedup_key  |-> Opt("dedup_key", P, dk),
          images     |-> Opt("images", P, imgs),
          links      |-> Opt("links", P, lnks),
          client     |-> Opt("client", P, "Zerotect"),
          client_url |-> Opt("client_url", P, "https://github.com/polyverse/zerotect") ] ]

AlertTriggerEvents ==
    { MkAlertTrigger("Info", P, T1, CdStruct, "dedupkey1", << Image1 >>, << Link1 >>) :
        P \in Presences }
    \cup { MkAlertTrigger(sev, {"dedup_key"}, T1, CdStruct, dk, << >>, << >>) :
             sev \in Severities, dk \in DedupKeys }
    \cup { MkAlertTrigger("Critical", {"timestamp", "custom_details"}, ts, cd,
                          "dedupkey1", << >>, << >>) :
             ts \in Timestamps, cd \in {CdStruct, CdUnit, CdUnencodable} }
    \cup { MkAlertTrigger("Error", {"images", "links", "client"}, T1, CdStruct,
                          "dedupkey1", imgs, lnks) :
             imgs \in {<< >>, << Image2, Image1 >>},
             lnks \in {<< >>, << Link2, Link1 >>} }

FollowupEvents ==
    { [variant |-> v, body |-> [dedup_key |-> dk]] :
        v \in {"AlertAcknowledge", "AlertResolve"}, dk \in DedupKeys }

RECURSIVE Repeat(_, _)
\* s written n times
Repeat(s, n) ==
    IF n = 0 THEN ""
    ELSE LET h == Repeat(s, n \div 2)
         IN  h \o h \o (IF n % 2 = 1 THEN s ELSE "")

\* A summary and a dedup_key one character longer than the service permits.
LongSummary == Repeat("s", SummaryLimit + 1)

LongDedupKey == Repeat("k", DedupKeyLimit + 1)

\* Events that carry them.
LongEvents ==
    { [MkChange(T1, None, None, None) EXCEPT !.body.payload.summary = LongSummary],
      [MkAlertTrigger("Info", {"dedup_key"}, T1, CdStruct, LongDedupKey, << >>, << >>)
          EXCEPT !.body.payload.summary = LongSummary],
      [variant |-> "AlertResolve", body |-> [dedup_key |-> LongDedupKey]] }

\* Every event of the model: the inputs of a single event() call.
Events == ChangeEvents \cup AlertTriggerEvents \cup FollowupEvents \cup LongEvents

\* The events a client is given when it is used for several calls in a row:
\* each variant, with nothing optional and with everything optional, and
\* events whose envelope does not serialize.
SeqEvents ==
    { MkChange(T1, None, None, None),
      MkChange(T2, Some("hostname"), Some(CdStruct), Some(<< Link1 >>)),
      MkChange(T1, None, Some(CdUnencodable), None),
      MkAlertTrigger("Info", {}, T1, CdStruct, "dedupkey1", << >>, << >>),
      MkAlertTrigger("Info", {"dedup_key"}, T1, CdStruct, "dedupkey1", << >>, << >>),
      MkAlertTrigger("Warning", AlertOptionals, T1, CdStruct, "DedupkeyFollowup",
                     << Image1 >>, << Link1 >>),
      MkAlertTrigger("Critical", {"timestamp", "custom_details"}, T4, CdUnencodable,
                     "dedupkey1", << >>, << >>) }
    \cup FollowupEvents

\* What send_string can give back: a response with a status line, or a
\* synthetic response standing for a failure before any response (ureq gives
\* those a 4xx or 5xx status of its own).
Statuses == {100, 200, 201, 202, 204, 301, 399, 400, 404, 499, 500, 503, 599, 600}

RealResponses ==
    { [synthetic |-> FALSE, status |-> s, error |-> None] : s \in Statuses }

SyntheticResponses ==
    { [synthetic |-> TRUE, status |-> 400, error |-> Some("DnsFailed")],
      [synthetic |-> TRUE, status |-> 500, error |-> Some("ConnectionFailed")],
      [synthetic |-> TRUE, status |-> 500, error |-> Some("Io: timed out")] }

Responses == RealResponses \cup SyntheticResponses

-----------------------------------------------------------------------------
(* The state machine *)

\* Mutant: new refuses a key that is not 32 characters long.
new_ValidatesKey(key, ua) ==
    IF Len(key) = 32
    THEN [ok |-> TRUE, client |-> [integration_key |-> key, user_agent |-> ua]]
    ELSE [ok |-> FALSE, client |-> None]

\* EventsV2::new: Ok(EventsV2 { integration_key, user_agent })
new(key, ua) ==
    [ok |-> TRUE, client |-> [integration_key |-> key, user_agent |-> ua]]

\* EventsV2::new(integration_key, user_agent) in any build; no call made.
Init ==
    /\ build \in Builds
    /\ \E key \in IntegrationKeys, ua \in UserAgents :
          /\ new(key, ua).ok
          /\ integration_key = new(key, ua).client.integration_key
          /\ user_agent = new(key, ua).client.user_agent
    /\ pc = [c \in Callers |-> "idle"]
    /\ event = [c \in Callers |-> None]
    /\ envelope = [c \in Callers |-> None]
    /\ request = [c \in Callers |-> None]
    /\ response = [c \in Callers |-> None]
    /\ result = [c \in Callers |-> None]
    /\ calls = 0
    /\ posts = 0

\* Mutant: a client whose last call ended in an error is poisoned: the next
\* call returns that error again and sends nothing.
Call_PoisonedAfterError(c, ev) ==
    LET d == Dispatch(integration_key, ev)
        a == DoPostSend(d.url, user_agent, to_string(build, d.content))
        poisoned == IsSome(result[c]) /\ Unwrap(result[c]).kind # "Ok"
    IN  /\ pc[c] = "idle"
        /\ calls' = calls + 1
        /\ event' = [event EXCEPT ![c] = Some(ev)]
        /\ envelope' = [envelope EXCEPT ![c] = Some(d.content)]
        /\ request' = [request EXCEPT ![c] = IF poisoned THEN None ELSE a.request]
        /\ response' = [response EXCEPT ![c] = None]
        /\ result' = [result EXCEPT ![c] = IF poisoned THEN result[c] ELSE a.result]
        /\ posts' = posts + (IF a.sent /\ ~poisoned THEN 1 ELSE 0)
        /\ pc' = [pc EXCEPT ![c] = IF a.sent /\ ~poisoned THEN "waiting" ELSE "idle"]
        /\ UNCHANGED << build, integration_key, user_agent >>

\* Mutant: the client keeps one request buffer for all its callers, so a
\* call overwrites the request of every call still in flight.
Call_SharedRequestBuffer(c, ev) ==
    LET d == Dispatch(integration_key, ev)
        a == DoPostSend(d.url, user_agent, to_string(build, d.content))
    IN  /\ pc[c] = "idle"
        /\ calls' = calls + 1
        /\ event' = [event EXCEPT ![c] = Some(ev)]
        /\ envelope' = [envelope EXCEPT ![c] = Some(d.content)]
        /\ request' = [x \in Callers |->
                          IF x = c \/ pc[x] = "waiting" THEN a.request
                          ELSE request[x]]
        /\ response' = [response EXCEPT ![c] = None]
        /\ result' = [result EXCEPT ![c] = a.result]
        /\ posts' = posts + (IF a.sent THEN 1 ELSE 0)
        /\ pc' = [pc EXCEPT ![c] = IF a.sent THEN "waiting" ELSE "idle"]
        /\ UNCHANGED << build, integration_key, user_agent >>

\* Caller c calls event(ev): dispatch, enrichment, serialization and, when
\* the envelope serialized, the request handed to send_string.  A
\* serialization error returns at once.
Call(c, ev) ==
    LET d == Dispatch(integration_key, ev)
        a == DoPostSend(d.url, user_agent, to_string(build, d.content))
    IN  /\ pc[c] = "idle"
        /\ calls' = calls + 1
        /\ event' = [event EXCEPT ![c] = Some(ev)]
        /\ envelope' = [envelope EXCEPT ![c] = Some(d.content)]
        /\ request' = [request EXCEPT ![c] = a.request]
        /\ response' = [response EXCEPT ![c] = None]
        /\ result' = [result EXCEPT ![c] = a.result]
        /\ posts' = posts + (IF a.sent THEN 1 ELSE 0)
        /\ pc' = [pc EXCEPT ![c] = IF a.sent THEN "waiting" ELSE "idle"]
        /\ UNCHANGED << build, integration_key, user_agent >>

\* Mutant: the timeout set on the request never ends the call.
Respond_TimeoutNeverFires(c, resp) ==
    /\ pc[c] = "waiting"
    /\ ~(resp.synthetic /\ resp.error = Some("Io: timed out"))
    /\ response' = [response EXCEPT ![c] = Some(resp)]
    /\ result' = [result EXCEPT ![c] = Some(Classify(resp))]
    /\ pc' = [pc EXCEPT ![c] = "idle"]
    /\ UNCHANGED << build, integration_key, user_agent, event, envelope,
                    request, calls, posts >>

\* Mutant: a call that ends in an error forgets the configured user agent.
Respond_ErrorClearsUserAgent(c, resp) ==
    /\ pc[c] = "waiting"
    /\ response' = [response EXCEPT ![c] = Some(resp)]
    /\ result' = [result EXCEPT ![c] = Some(Classify(resp))]
    /\ pc' = [pc EXCEPT ![c] = "idle"]
    /\ user_agent' = IF Classify(resp).kind = "Ok" THEN user_agent ELSE None
    /\ UNCHANGED << build, integration_key, event, envelope, request, calls,
                    posts >>

\* Mutant: after a transport failure or a 5xx the request is sent again.
Respond_RetryOnFailure(c, resp) ==
    /\ pc[c] = "waiting"
    /\ IF resp.synthetic \/ resp.status >= 500
       THEN /\ posts' = posts + 1
            /\ UNCHANGED << response, result, pc >>
       ELSE /\ posts' = posts
            /\ response' = [response EXCEPT ![c] = Some(resp)]
            /\ result' = [result EXCEPT ![c] = Some(Classify(resp))]
            /\ pc' = [pc EXCEPT ![c] = "idle"]
    /\ UNCHANGED << build, integration_key, user_agent, event, envelope,
                    request, calls >>

\* send_string returns resp to caller c; do_post classifies it and event()
\* returns.
Respond(c, resp) ==
    /\ pc[c] = "waiting"
    /\ response' = [response EXCEPT ![c] = Some(resp)]
    /\ result' = [result EXCEPT ![c] = Some(Classify(resp))]
    /\ pc' = [pc EXCEPT ![c] = "idle"]
    /\ UNCHANGED << build, integration_key, user_agent, event, envelope,
                    request, calls, posts >>

\* One caller thread using the client for up to MaxCalls calls, one after
\* the other, with any outcome for each.
Next ==
    \/ \E ev \in SeqEvents : calls < MaxCalls /\ Call(1, ev)
    \/ \E resp \in Responses : Respond(1, resp)

Spec == Init /\ [][Next]_vars

\* The same runs with the one thing the code guarantees about time: the
\* timeout do_post sets on every request (300 seconds, the whole exchange)
\* does run out, so a call inside send_string that gets no response is
\* ended by it.  Whether and when the server answers is left open.
SpecTimeout ==
    /\ Spec
    /\ \A c \in Callers :
          WF_vars(Respond(c, [synthetic |-> TRUE, status |-> 500,
                              error |-> Some("Io: timed out")]))

\* A single event() call on a fresh client, given any event of the model.
NextOneCall ==
    \/ \E ev \in Events : calls = 0 /\ Call(1, ev)
    \/ \E resp \in Responses : Respond(1, resp)

SpecOneCall == Init /\ [][NextOneCall]_vars

\* Responses with the parts do_post never reads: a body and headers.
Bodies == {"", "{\"status\":\"success\",\"message\":\"Event processed\",\"dedup_key\":\"dedupkey1\"}"}

HeaderSets == {<< >>, << << "x-request-id", "1f3c" >>, << "content-type", "application/json" >> >>}

FullResponses ==
    { [synthetic |-> FALSE, status |-> s, error |-> None, body |-> b, headers |-> h] :
        s \in Statuses, b \in Bodies, h \in HeaderSets }
    \cup { [synthetic |-> TRUE, status |-> r.status, error |-> r.error,
            body |-> Unwrap(r.error), headers |-> << >>] : r \in SyntheticResponses }

\* The events and the outcomes of the calls that share a client: one of each
\* variant, an event that does not serialize, and an accepted, a rejected
\* and a failed exchange.
ConcEvents ==
    { MkChange(T1, None, None, None),
      MkChange(T1, None, Some(CdUnencodable), None),
      MkAlertTrigger("Info", {"dedup_key"}, T1, CdStruct, "dedupkey1", << >>, << >>),
      [variant |-> "AlertAcknowledge", body |-> [dedup_key |-> "dedupkey1"]],
      [variant |-> "AlertResolve", body |-> [dedup_key |-> "DedupkeyFollowup"]] }

ConcResponses ==
    { [synthetic |-> FALSE, status |-> 202, error |-> None],
      [synthetic |-> FALSE, status |-> 404, error |-> None],
      [synthetic |-> TRUE, status |-> 500, error |-> Some("Io: timed out")] }

\* Several callers sharing one client (&self), each a thread of its own, up
\* to MaxCalls calls in all.  No build keeps a caller out of event() while
\* another caller is inside it.
NextConcurrent ==
    \/ \E c \in Callers, ev \in ConcEvents : calls < MaxCalls /\ Call(c, ev)
    \/ \E c \in Callers, resp \in ConcResponses : Respond(c, resp)

SpecConcurrent == Init /\ [][NextConcurrent]_vars

\* The thread is not inside send_string.  event() and do_post are ordinary
\* fns around ureq's blocking send_string in every build, eventsv2async.rs
\* included: they contain no await, so a caller that has entered event()
\* keeps its thread until event() returns.
ThreadFree == \A d \in Callers : pc[d] = "idle"

\* The callers as tasks of a cooperative scheduler that runs them on one
\* thread: a task enters event() only when the thread is free.
NextOneThread ==
    \/ \E c \in Callers, ev \in ConcEvents :
          calls < MaxCalls /\ ThreadFree /\ Call(c, ev)
    \/ \E c \in Callers, resp \in ConcResponses : Respond(c, resp)

SpecOneThread == Init /\ [][NextOneThread]_vars

\* A single call answered by any response, body and headers included.
NextFullResponse ==
    \/ \E ev \in ConcEvents : calls = 0 /\ Call(1, ev)
    \/ \E resp \in FullResponses : Respond(1, resp)

SpecFullResponse == Init /\ [][NextFullResponse]_vars

-----------------------------------------------------------------------------
(* Helpers of the properties *)

\* Caller c has called event() at least once.
Called(c) == IsSome(event[c])

\* Caller c's last call got as far as send_string.
Sent(c) == IsSome(request[c])

\* Caller c's last call has returned.
Returned(c) == IsSome(result[c])

AlertVariants == {"AlertTrigger", "AlertAcknowledge", "AlertResolve"}

ErrorKinds == {"SerdeJsonError", "SyntheticUreqError", "HttpError", "NotAccepted"}

\* s begins with the text p
StartsWith(s, p) == Len(s) >= Len(p) /\ SubSeq(s, 1, Len(p)) = p

\* The keys of a sequence of fields, in order.
Keys(fs) == [i \in 1..Len(fs) |-> fs[i].key]

\* The first bytes of every body: the routing_key member holding key.
RoutingKeyPrefix(key) == "{\"routing_key\":\"" \o key \o "\","

-----------------------------------------------------------------------------
(* C1: for every Event variant and every caller input, the envelope that   *)
(* event() builds has routing_key equal to the integration key the client  *)
(* was constructed with, and the body sent begins with that routing_key    *)
(* member; no field of the caller's event changes it.                      *)
C1_RoutingKeyIsIntegrationKey ==
    \A c \in Callers :
        /\ Called(c) => Unwrap(envelope[c]).routing_key = integration_key
        /\ Sent(c) =>
             StartsWith(Unwrap(request[c]).body, RoutingKeyPrefix(integration_key))

\* Reached: a follow-up whose dedup_key differs from the integration key
\* has been sent.
C1_Witness ==
    /\ Sent(1)
    /\ Unwrap(event[1]).variant = "AlertResolve"
    /\ Unwrap(event[1]).body.dedup_key = "dedupkey1"
    /\ integration_key = "0123456789abcdef0123456789abcdef"

(* C2: a Change is posted only to the change endpoint and AlertTrigger,    *)
(* AlertAcknowledge and AlertResolve only to the alert endpoint; the URL   *)
(* depends on nothing but the variant.                                     *)
C2_EndpointByVariant ==
    \A c \in Callers :
        Sent(c) =>
            LET url == Unwrap(request[c]).url
                v   == Unwrap(event[c]).variant
            IN  /\ v = "Change" <=> url = "https://events.pagerduty.com/v2/change/enqueue"
                /\ v \in AlertVariants <=> url = "https://events.pagerduty.com/v2/enqueue"

\* Reached: an AlertTrigger carrying links, like a Change does, went to the
\* alert endpoint.
C2_Witness ==
    /\ Sent(1)
    /\ Unwrap(event[1]).variant = "AlertTrigger"
    /\ IsSome(Unwrap(event[1]).body.links)
    /\ Unwrap(request[1]).url = AlertUrl

(* C3: for every status s of a response actually received, do_post returns *)
(* Ok(()) when s = 202, HttpError(s) when 400 <= s < 600 and               *)
(* NotAccepted(s) for every other s; a failure before any response returns *)
(* SyntheticUreqError.                                                     *)
C3_Classification ==
    \A c \in Callers :
        IsSome(response[c]) =>
            LET r   == Unwrap(response[c])
                res == Unwrap(result[c])
            IN  /\ Returned(c)
                /\ ~r.synthetic /\ r.status = 202 => res = [kind |-> "Ok"]
                /\ ~r.synthetic /\ r.status >= 400 /\ r.status < 600 =>
                       res = [kind |-> "HttpError", code |-> r.status]
                /\ ~r.synthetic /\ r.status # 202
                   /\ (r.status < 400 \/ r.status >= 600) =>
                       res = [kind |-> "NotAccepted", code |-> r.status]
                /\ r.synthetic => res.kind = "SyntheticUreqError"

\* Reached: a response with status 600, outside every HTTP class, has been
\* classified.
C3_Witness ==
    /\ IsSome(response[1])
    /\ ~Unwrap(response[1]).synthetic
    /\ Unwrap(response[1]).status = 600
    /\ Unwrap(result[1]) = [kind |-> "NotAccepted", code |-> 600]

(* C4: every event() call ends in exactly one outcome out of Ok(()),       *)
(* SerdeJsonError, SyntheticUreqError, HttpError(code), NotAccepted(code); *)
(* it is Ok(()) if and only if a real response with status 202 was         *)
(* received, and what do_post decided is what the caller holds.            *)
C4_ExactlyOneOutcome ==
    \A c \in Callers :
        /\ Called(c) /\ pc[c] = "idle" => Returned(c)
        /\ pc[c] = "waiting" => ~Returned(c)
        /\ Returned(c) =>
             LET res == Unwrap(result[c])
             IN  /\ res.kind \in ErrorKinds \cup {"Ok"}
                 /\ res.kind = "Ok" <=>
                       /\ IsSome(response[c])
                       /\ ~Unwrap(response[c]).synthetic
                       /\ Unwrap(response[c]).status = 202
                 /\ res.kind = "SerdeJsonError" <=> ~Sent(c)
                 /\ res.kind \in {"HttpError", "NotAccepted"} =>
                       /\ ~Unwrap(response[c]).synthetic
                       /\ res.code = Unwrap(response[c]).status
                 /\ res.kind = "SyntheticUreqError" =>
                       /\ Unwrap(response[c]).synthetic
                       /\ res.err = Unwrap(response[c]).error

\* Reached: the second call on a client received a 202 and returned Ok.
C4_Witness ==
    /\ calls = 2
    /\ Returned(1)
    /\ Unwrap(result[1]).kind = "Ok"
    /\ Unwrap(response[1]).status = 202

(* C5: when JSON serialization of the envelope fails, event() returns     *)
(* SerdeJsonError and no HTTP request has been built or sent for the call. *)
C5_SerializationFailsBeforeNetwork ==
    \A c \in Callers :
        Called(c) =>
            LET js == to_string(build, Unwrap(envelope[c]))
            IN  /\ ~js.ok =>
                      /\ result[c] = Some([kind |-> "SerdeJsonError", err |-> js.out])
                      /\ ~Sent(c)
                      /\ IsNone(response[c])
                      /\ pc[c] = "idle"
                      /\ posts < calls
                /\ Returned(c) /\ Unwrap(result[c]).kind = "SerdeJsonError" => ~js.ok

\* Reached: a call whose custom_details cannot be encoded has returned
\* after an earlier call was posted.
C5_Witness ==
    /\ calls = 2
    /\ posts = 1
    /\ Returned(1)
    /\ Unwrap(result[1]).kind = "SerdeJsonError"
    /\ Unwrap(event[1]).body.payload.custom_details = Some(CdUnencodable)

\* The callers that enter send_string in a step.
Senders == {c \in Callers : pc[c] = "idle" /\ pc'[c] = "waiting"}

(* C6: each event() call whose envelope serializes issues exactly one      *)
(* HTTP POST and a call whose envelope does not serialize issues none;     *)
(* a response of any kind, or a transport failure, sends nothing again, so *)
(* after any sequence of n calls at most n POSTs have been issued.         *)
C6_OnePostPerCall ==
    /\ [](posts <= calls)
    /\ [][ /\ calls' = calls => posts' = posts
           /\ calls' # calls =>
                /\ calls' = calls + 1
                /\ posts' = posts + Cardinality(Senders)
                /\ \E c \in Callers :
                     /\ pc[c] = "idle"
                     /\ Called(c)'
                     /\ IF to_string(build, Unwrap(envelope'[c])).ok
                        THEN Senders = {c} /\ Sent(c)'
                        ELSE Senders = {} /\ ~Sent(c)' ]_vars

\* Reached: two calls, two POSTs, the second ended by a transport failure.
C6_Witness ==
    /\ calls = 2
    /\ posts = 2
    /\ Returned(1)
    /\ Unwrap(result[1]).kind = "SyntheticUreqError"

-----------------------------------------------------------------------------
(* The members of a serialized body, level by level *)

\* The fields of the envelope's payload; a follow-up has none.
PayloadFields(b, e) ==
    CASE e.kind = "SendableChange"        -> ChangePayloadFields(b, e.payload)
      [] e.kind = "SendableAlertTrigger"  -> AlertTriggerPayloadFields(b, e.payload)
      [] e.kind = "SendableAlertFollowup" -> << >>

RECURSIVE Flatten(_)
Flatten(ss) == IF ss = << >> THEN << >> ELSE Head(ss) \o Flatten(Tail(ss))

\* The links and the images an envelope carries.
LinksOf(e) ==
    IF e.kind # "SendableAlertFollowup" /\ IsSome(e.links) THEN Unwrap(e.links)
    ELSE << >>

ImagesOf(e) ==
    IF e.kind = "SendableAlertTrigger" /\ IsSome(e.images) THEN Unwrap(e.images)
    ELSE << >>

\* Every member written for the envelope at any depth the library's own
\* types reach: the envelope, its payload, each link and each image.
AllFields(b, e) ==
    EnvelopeFields(b, e) \o PayloadFields(b, e)
    \o Flatten([i \in 1..Len(LinksOf(e)) |-> LinkFields(LinksOf(e)[i])])
    \o Flatten([i \in 1..Len(ImagesOf(e)) |-> ImageFields(ImagesOf(e)[i])])

\* The keys that the fields fs write with the value null.
NullKeysIn(fs) == { fs[i].key : i \in { j \in 1..Len(fs) : fs[j].val.out = "null" } }

\* The keys an envelope writes with the value null, at any depth.
NullKeys(b, e) == NullKeysIn(AllFields(b, e))

HasKey(fs, k) == \E i \in 1..Len(fs) : fs[i].key = k

\* The optional fields of each struct.
OptionalsOf(kind) ==
    CASE kind = "SendableChange" -> {"links"}
      [] kind = "SendableAlertTrigger" ->
             {"dedup_key", "images", "links", "client", "client_url"}
      [] kind = "SendableAlertFollowup" -> {}

PayloadOptionalsOf(kind) ==
    CASE kind = "SendableChange" -> {"source", "custom_details"}
      [] kind = "SendableAlertTrigger" ->
             {"timestamp", "component", "group", "class", "custom_details"}
      [] kind = "SendableAlertFollowup" -> {}

\* A key is written for an optional field exactly when the caller's event
\* has the field, at every level.
KeysMatchPresence(b, ev, e) ==
    /\ \A n \in OptionalsOf(e.kind) :
           HasKey(EnvelopeFields(b, e), n) <=> IsSome(ev.body[n])
    /\ \A n \in PayloadOptionalsOf(e.kind) :
           HasKey(PayloadFields(b, e), n) <=> IsSome(ev.body.payload[n])
    /\ \A i \in 1..Len(LinksOf(e)) :
           HasKey(LinkFields(LinksOf(e)[i]), "text") <=> IsSome(LinksOf(e)[i].text)
    /\ \A i \in 1..Len(ImagesOf(e)) :
           /\ HasKey(ImageFields(ImagesOf(e)[i]), "href") <=> IsSome(ImagesOf(e)[i].href)
           /\ HasKey(ImageFields(ImagesOf(e)[i]), "alt") <=> IsSome(ImagesOf(e)[i].alt)

\* The caller's custom_details, None for a follow-up.
CustomDetailsOf(ev) ==
    IF ev.variant \in {"Change", "AlertTrigger"} THEN ev.body.payload.custom_details
    ELSE None

(* C7 as claimed: for any Change, AlertTrigger or follow-up and any        *)
(* custom_details type T, the serialized JSON has a key for every optional *)
(* field that is present, none for an absent one, and no key with a null   *)
(* value anywhere in the body.                                             *)
C7_Original_NoNullForAnyT ==
    \A c \in Callers :
        Sent(c) =>
            /\ KeysMatchPresence(build, Unwrap(event[c]), Unwrap(envelope[c]))
            /\ NullKeys(build, Unwrap(envelope[c])) = {}

(* C7 as amended: the serialized JSON has a key for every optional field   *)
(* that is present and none for an absent one; no field of the library's   *)
(* own types is written as null, and custom_details is written as whatever *)
(* the caller's T serializes to, which is null when T is ().               *)
C7_OptionalKeys ==
    \A c \in Callers :
        Sent(c) =>
            LET ev == Unwrap(event[c])
                e  == Unwrap(envelope[c])
                nk == NullKeys(build, e)
            IN  /\ KeysMatchPresence(build, ev, e)
                /\ nk \subseteq {"custom_details"}
                /\ "custom_details" \in nk <=> CustomDetailsOf(ev) = Some(CdUnit)

\* Reached: an AlertTrigger with a timestamp, without a client and with
\* custom_details of type () has been sent.
C7_Witness ==
    /\ Sent(1)
    /\ Unwrap(event[1]).variant = "AlertTrigger"
    /\ IsNone(Unwrap(event[1]).body.client)
    /\ IsSome(Unwrap(event[1]).body.payload.timestamp)
    /\ Unwrap(event[1]).body.payload.custom_details = Some(CdUnit)

-----------------------------------------------------------------------------
\* The body of a follow-up with the given members, written out.
FollowupBody(key, dk, action) ==
    "{\"routing_key\":\"" \o key \o "\",\"dedup_key\":\"" \o dk
    \o "\",\"event_action\":\"" \o action \o "\"}"

(* C8: for AlertAcknowledge and AlertResolve the envelope sent holds       *)
(* exactly the keys routing_key, dedup_key, event_action in that order,    *)
(* with the caller's dedup_key and with event_action "acknowledge" for     *)
(* AlertAcknowledge and "resolve" for AlertResolve; it carries no payload. *)
C8_FollowupEnvelope ==
    \A c \in Callers :
        Called(c) /\ Unwrap(event[c]).variant \in {"AlertAcknowledge", "AlertResolve"} =>
            LET ev == Unwrap(event[c])
                e  == Unwrap(envelope[c])
                a  == IF ev.variant = "AlertAcknowledge" THEN "acknowledge" ELSE "resolve"
            IN  /\ DOMAIN e = {"kind", "routing_key", "dedup_key", "event_action"}
                /\ e.dedup_key = ev.body.dedup_key
                /\ Sent(c)
                /\ Keys(EnvelopeFields(build, e))
                       = << "routing_key", "dedup_key", "event_action" >>
                /\ Unwrap(request[c]).body
                       = FollowupBody(integration_key, ev.body.dedup_key, a)

\* Reached: an AlertAcknowledge has been sent.
C8_Witness ==
    /\ Sent(1)
    /\ Unwrap(event[1]).variant = "AlertAcknowledge"
    /\ Unwrap(event[1]).body.dedup_key = "DedupkeyFollowup"
    /\ Unwrap(envelope[1]).event_action = "Acknowledge"

\* The keys of a SendableAlertTrigger in the order of the wire format.
AlertTriggerKeyOrder ==
    << "routing_key", "payload", "dedup_key", "images", "links",
       "event_action", "client", "client_url" >>

\* ks lists some of the elements of order, each once, in order's order.
InOrder(ks, order) ==
    /\ \A i \in 1..Len(ks) : \E j \in 1..Len(order) : order[j] = ks[i]
    /\ \A i, j \in 1..Len(ks) :
           i < j => \E m, n \in 1..Len(order) :
                        m < n /\ order[m] = ks[i] /\ order[n] = ks[j]

\* The scenario of the spec: dedup_key "dedupkey1", severity Info, summary
\* "Hello", source "hostname", nothing else.
ScenarioTrigger ==
    MkAlertTrigger("Info", {"dedup_key"}, T1, CdStruct, "dedupkey1", << >>, << >>)

ScenarioBody ==
    "{\"routing_key\":\"routingkey\",\"payload\":{\"severity\":\"info\",\"summary\":\"Hello\",\"source\":\"hostname\"},\"dedup_key\":\"dedupkey1\",\"event_action\":\"trigger\"}"

\* serialize_sendable_alert_trigger of eventsv2.rs, everything optional.
FullTrigger ==
    MkAlertTrigger("Info", AlertOptionals, T1, CdStruct, "dedupkey1",
                   << Image1 >>, << Link1 >>)

FullBody ==
    "{\"routing_key\":\"routingkey\",\"payload\":{\"severity\":\"info\",\"summary\":\"Hello\",\"source\":\"hostname\",\"timestamp\":\"2033-05-18T23:30:04.323000000Z\",\"component\":\"postgres\",\"group\":\"prod-datapipe\",\"class\":\"deploy\",\"custom_details\":{\"some_field\":\"Serialize this!\",\"another_field\":34}},\"dedup_key\":\"dedupkey1\",\"images\":[{\"src\":\"https://polyverse.com/static/img/SplashPageIMG/polyverse_blue.png\",\"href\":\"https://polyverse.com\",\"alt\":\"The Polyverse Logo\"}],\"links\":[{\"href\":\"https://polyverse.com\",\"text\":\"Polyverse homepage\"}],\"event_action\":\"trigger\",\"client\":\"Zerotect\",\"client_url\":\"https://github.com/polyverse/zerotect\"}"

(* C9: the envelope sent for any AlertTrigger has event_action "trigger"   *)
(* and its keys in the order routing_key, payload, dedup_key, images,      *)
(* links, event_action, client, client_url, absent optional keys skipped;  *)
(* the scenario of the spec gives exactly the body the spec quotes, and    *)
(* eventsv2.rs writes the full trigger of its own test as quoted           *)
(* there.                                                                  *)
C9_AlertTriggerEnvelope ==
    \A c \in Callers :
        Called(c) /\ Unwrap(event[c]).variant = "AlertTrigger" =>
            LET ev == Unwrap(event[c])
                e  == Unwrap(envelope[c])
                ks == Keys(EnvelopeFields(build, e))
            IN  /\ e.event_action = "Trigger"
                /\ InOrder(ks, AlertTriggerKeyOrder)
                /\ \A k \in {"routing_key", "payload", "event_action"} :
                       \E i \in 1..Len(ks) : ks[i] = k
                /\ EnvelopeFields(build, e)[Len(ks) - (IF IsSome(ev.body.client) THEN 1 ELSE 0)
                                                 - (IF IsSome(ev.body.client_url) THEN 1 ELSE 0)]
                       = Field("event_action", JsonStr("trigger"))
                /\ ev = ScenarioTrigger /\ integration_key = "routingkey" =>
                       Sent(c) /\ Unwrap(request[c]).body = ScenarioBody
                /\ ev = FullTrigger /\ integration_key = "routingkey"
                   /\ build = "eventsv2" =>
                       Sent(c) /\ Unwrap(request[c]).body = FullBody

\* Reached: the scenario's AlertTrigger has been sent by a client whose
\* integration key is "routingkey".
C9_Witness ==
    /\ Sent(1)
    /\ Unwrap(event[1]) = ScenarioTrigger
    /\ integration_key = "routingkey"
    /\ Unwrap(request[1]).body = ScenarioBody

\* The fields of a sequence whose key is not in the set.
Without(fs, ks) == SelectSeq(fs, LAMBDA f : f.key \notin ks)

(* C10: enrichment of a Change or an AlertTrigger leaves every caller      *)
(* field unchanged: payload, links, images, dedup_key, client and          *)
(* client_url of the envelope equal the caller's, and what is written for  *)
(* them is what the caller's own value serializes to; only routing_key,    *)
(* and event_action for alerts, are added.                                 *)
C10_EnrichmentCopiesVerbatim ==
    \A c \in Callers :
        Called(c) =>
            LET ev == Unwrap(event[c])
                e  == Unwrap(envelope[c])
            IN  /\ ev.variant = "Change" =>
                     /\ DOMAIN e = DOMAIN ev.body \cup {"kind", "routing_key"}
                     /\ \A f \in DOMAIN ev.body : e[f] = ev.body[f]
                     /\ Without(EnvelopeFields(build, e), {"routing_key"})
                            = ChangeFields(build, ev.body)
                /\ ev.variant = "AlertTrigger" =>
                     /\ DOMAIN e = DOMAIN ev.body
                                     \cup {"kind", "routing_key", "event_action"}
                     /\ \A f \in DOMAIN ev.body : e[f] = ev.body[f]
                     /\ Without(EnvelopeFields(build, e), {"routing_key", "event_action"})
                            = AlertTriggerFields(build, ev.body)

\* Reached: an AlertTrigger with two images and two links, no dedup_key
\* and no client_url has been enriched and sent.
C10_Witness ==
    /\ Sent(1)
    /\ Unwrap(event[1]).variant = "AlertTrigger"
    /\ Unwrap(envelope[1]).images = Some(<< Image2, Image1 >>)
    /\ Unwrap(envelope[1]).links = Some(<< Link2, Link1 >>)
    /\ IsNone(Unwrap(envelope[1]).dedup_key)
    /\ IsNone(Unwrap(envelope[1]).client_url)

-----------------------------------------------------------------------------
\* The values a request carries for the header called name, in order.
HeaderValues(req, name) ==
    LET hs == SelectSeq(req.headers, LAMBDA h : h[1] = name)
    IN  [i \in 1..Len(hs) |-> hs[i][2]]

(* C11: every request that event() sends is a POST carrying content-type:  *)
(* application/json and content-encoding: identity; it carries a           *)
(* user-agent header if and only if the client was constructed with a user *)
(* agent, and then the header's value is that string; the body is the JSON *)
(* serialization of the envelope.                                          *)
C11_RequestShape ==
    \A c \in Callers :
        Sent(c) =>
            LET req == Unwrap(request[c])
            IN  /\ req.method = "POST"
                /\ HeaderValues(req, "content-type") = << "application/json" >>
                /\ HeaderValues(req, "content-encoding") = << "identity" >>
                /\ HeaderValues(req, "user-agent") = user_agent
                /\ Len(req.headers) = 2 + Len(user_agent)
                /\ SerOk(req.body) = to_string(build, Unwrap(envelope[c]))

\* Reached: a client constructed with a user agent has sent a Change.
C11_Witness ==
    /\ Sent(1)
    /\ user_agent = Some("pagerduty-rs test")
    /\ Unwrap(event[1]).variant = "Change"
    /\ HeaderValues(Unwrap(request[1]), "user-agent") = << "pagerduty-rs test" >>

-----------------------------------------------------------------------------
\* Text search in a serialized body.
Contains(s, p) ==
    \E i \in 1..(Len(s) - Len(p) + 1) : SubSeq(s, i, i + Len(p) - 1) = p

Digits == {"0", "1", "2", "3", "4", "5", "6", "7", "8", "9"}

RECURSIVE DigitsFrom(_, _)
\* the number of consecutive digits of s that start at position i
DigitsFrom(s, i) ==
    IF i > Len(s) \/ SubSeq(s, i, i) \notin Digits THEN 0
    ELSE 1 + DigitsFrom(s, i + 1)

\* The number of fractional-second digits of a timestamp text: the digits
\* that follow its decimal point, none when it has no decimal point.
FracDigits(s) ==
    LET dots == {i \in 1..Len(s) : SubSeq(s, i, i) = "."}
    IN  IF dots = {} THEN 0 ELSE DigitsFrom(s, (CHOOSE i \in dots : TRUE) + 1)

\* The timestamp an envelope carries, None when it carries none.
TimestampOf(e) ==
    CASE e.kind = "SendableChange"        -> Some(e.payload.timestamp)
      [] e.kind = "SendableAlertTrigger"  -> e.payload.timestamp
      [] e.kind = "SendableAlertFollowup" -> None

\* The JSON text written for the payload's timestamp member.
TimestampText(b, e) ==
    LET fs == PayloadFields(b, e)
        i  == CHOOSE k \in 1..Len(fs) : fs[k].key = "timestamp"
    IN  fs[i].val.out

\* A sent request whose body has a timestamp member.
SentWithTimestamp(c) ==
    /\ Sent(c)
    /\ IsSome(TimestampOf(Unwrap(envelope[c])))
    /\ Contains(Unwrap(request[c]).body,
                "\"timestamp\":" \o TimestampText(build, Unwrap(envelope[c])))

(* C12: every timestamp is written with the same fixed number of           *)
(* fractional-second digits (nine) whatever its sub-second value, and the  *)
(* timestamp 2000071804323000000 ns is written as                          *)
(* "2033-05-18T23:30:04.323000000Z" in a Change payload and in an          *)
(* AlertTrigger payload.                                                   *)
C12_FixedFractionDigits ==
    \A c \in Callers :
        (Sent(c) /\ IsSome(TimestampOf(Unwrap(envelope[c])))) =>
            /\ SentWithTimestamp(c)
            /\ FracDigits(TimestampText(build, Unwrap(envelope[c]))) = 9
            /\ TimestampOf(Unwrap(envelope[c])) = Some(T1) =>
                   Contains(Unwrap(request[c]).body,
                            "\"timestamp\":\"2033-05-18T23:30:04.323000000Z\"")

-----------------------------------------------------------------------------
\* s, a quoted JSON string, is exactly "YYYY-MM-DDTHH:MM:SSZ": digits at the
\* places of the components and the separators between them.
IsSecondsPrecisionZ(s) ==
    /\ Len(s) = 22
    /\ SubSeq(s, 1, 1) = "\"" /\ SubSeq(s, 22, 22) = "\""
    /\ \A i \in {2, 3, 4, 5, 7, 8, 10, 11, 13, 14, 16, 17, 19, 20} :
           SubSeq(s, i, i) \in Digits
    /\ SubSeq(s, 6, 6) = "-" /\ SubSeq(s, 9, 9) = "-"
    /\ SubSeq(s, 12, 12) = "T"
    /\ SubSeq(s, 15, 15) = ":" /\ SubSeq(s, 18, 18) = ":"
    /\ SubSeq(s, 21, 21) = "Z"

(* C13: with datetime_to_iso8601 of types.rs, a UTC timestamp whose        *)
(* sub-second part is zero is written as exactly YYYY-MM-DDTHH:MM:SSZ with *)
(* every component zero-padded; midnight of 2021-05-30 UTC is written as   *)
(* "2021-05-30T00:00:00Z".                                                 *)
C13_ZeroSubsecondUtc ==
    \A c \in Callers :
        (UsesTypesRs(build) /\ Sent(c)) =>
            LET e  == Unwrap(envelope[c])
                ts == TimestampOf(e)
            IN  (IsSome(ts) /\ Unwrap(ts).nanos = 0 /\ Unwrap(ts).offset = 0) =>
                    /\ SentWithTimestamp(c)
                    /\ IsSecondsPrecisionZ(TimestampText(build, e))
                    /\ ts = Some(T2) =>
                           TimestampText(build, e) = "\"2021-05-30T00:00:00Z\""
                    /\ ts = Some(T5) =>
                           TimestampText(build, e) = "\"2001-02-03T04:05:06Z\""

\* Reached: an AlertTrigger dated midnight of 2021-05-30 UTC has been sent by
\* a build that uses types.rs.
C13_Witness ==
    /\ UsesTypesRs(build)
    /\ SentWithTimestamp(1)
    /\ Unwrap(event[1]).variant = "AlertTrigger"
    /\ TimestampOf(Unwrap(envelope[1])) = Some(T2)
    /\ Contains(Unwrap(request[1]).body, "\"timestamp\":\"2021-05-30T00:00:00Z\"")

-----------------------------------------------------------------------------
EndsWith(s, p) == Len(s) >= Len(p) /\ SubSeq(s, Len(s) - Len(p) + 1, Len(s)) = p

\* A timestamp text, a quoted JSON string, carries a numeric timezone offset:
\* a sign after the time of day.
HasNumericOffset(s) ==
    \E i \in 13..Len(s) : SubSeq(s, i, i) \in {"+", "-"}

(* C14: for every timestamp value, including one whose UTC offset is not   *)
(* zero, the serialized string ends with "Z" and contains no numeric       *)
(* timezone offset.                                                        *)
C14_AlwaysZNoOffset ==
    \A c \in Callers :
        (Sent(c) /\ IsSome(TimestampOf(Unwrap(envelope[c])))) =>
            /\ SentWithTimestamp(c)
            /\ EndsWith(TimestampText(build, Unwrap(envelope[c])), "Z\"")
            /\ ~HasNumericOffset(TimestampText(build, Unwrap(envelope[c])))

-----------------------------------------------------------------------------
\* What event() of build b does with an event, up to the moment the request
\* leaves: the request it sends, or the error it returns without sending.
RequestOf(b, key, ua, ev) ==
    LET d == Dispatch(key, ev)
    IN  DoPostSend(d.url, ua, to_string(b, d.content))

(* C15: the blocking implementation (eventsv2.rs) and the non-blocking one *)
(* (eventsv2async.rs with types.rs) produce the same request for the same  *)
(* client configuration and event: same URL, same headers and a            *)
(* byte-identical JSON body, timestamps included.                          *)
C15_BuildsProduceSameRequest ==
    \A c \in Callers :
        Called(c) =>
            LET mine  == RequestOf(build, integration_key, user_agent,
                                   Unwrap(event[c]))
            IN  /\ mine.sent = Sent(c)
                /\ mine.request = request[c]
                /\ \A b \in Builds :
                       LET other == RequestOf(b, integration_key, user_agent,
                                              Unwrap(event[c]))
                       IN  /\ other.sent = mine.sent
                           /\ other.request = mine.request

-----------------------------------------------------------------------------
\* Everything the model holds for caller c's call.
Slots(c) == << pc[c], event[c], envelope[c], request[c], response[c], result[c] >>

(* C16: when several event() calls run concurrently on one client, in any  *)
(* interleaving, each request carries exactly the envelope built from its  *)
(* own event and the client's integration key, each caller receives the    *)
(* classification of its own response, and no step writes state shared     *)
(* between the calls: a step changes one caller's call only and never the  *)
(* client's fields.                                                        *)
C16_ConcurrentCallsIndependent ==
    /\ [](\A c \in Callers :
            Called(c) =>
                LET own == RequestOf(build, integration_key, user_agent,
                                     Unwrap(event[c]))
                IN  /\ envelope[c] =
                           Some(Dispatch(integration_key, Unwrap(event[c])).content)
                    /\ request[c] = own.request
                    /\ Sent(c) => StartsWith(Unwrap(request[c]).body,
                                             RoutingKeyPrefix(integration_key))
                    /\ (Sent(c) /\ Returned(c)) =>
                           /\ IsSome(response[c])
                           /\ result[c] = Some(Classify(Unwrap(response[c]))))
    /\ [][ /\ integration_key' = integration_key
           /\ user_agent' = user_agent
           /\ \E c \in Callers :
                \A d \in Callers \ {c} : Slots(d)' = Slots(d) ]_vars

\* Reached: two calls in flight at once, a Change and a resolve, each with
\* its own request.
C16_Witness ==
    /\ pc[1] = "waiting" /\ pc[2] = "waiting"
    /\ Unwrap(event[1]).variant = "Change"
    /\ Unwrap(event[2]).variant = "AlertResolve"
    /\ Unwrap(request[1]).url = ChangeUrl
    /\ Unwrap(request[2]).body = FollowupBody(integration_key, "DedupkeyFollowup", "resolve")

-----------------------------------------------------------------------------
(* C17: after construction and any sequence of event() calls, whatever     *)
(* their outcomes, the client's integration_key and user_agent are the     *)
(* values EventsV2::new was given: no step of any call changes them.       *)
C17_ConfigurationFrozen ==
    [][ /\ integration_key' = integration_key
        /\ user_agent' = user_agent ]_vars

\* Reached: the client has been used twice, the second call ended in an HTTP
\* error, and it still holds a key and a user agent.
C17_Witness ==
    /\ calls = 2
    /\ Returned(1)
    /\ Unwrap(result[1]).kind = "HttpError"
    /\ integration_key = "0123456789abcdef0123456789abcdef"
    /\ user_agent = Some("pagerduty-rs test")

-----------------------------------------------------------------------------
(* C18: the request an event() call sends and the result it returns depend *)
(* only on that call's event, the client's configuration and that call's   *)
(* own HTTP outcome, never on earlier calls: whatever state the earlier     *)
(* calls left, a call sends the request computed from its own event (or    *)
(* returns its own serialization error), so after a failed call the next   *)
(* one is sent normally; an AlertAcknowledge or AlertResolve is sent for    *)
(* any dedup_key whether or not a trigger with it was sent before; and a   *)
(* returning call yields the classification of its own response.           *)
C18_HistoryIndependent ==
    [][ /\ calls' = calls + 1 =>
              \E c \in Callers :
                  /\ pc[c] = "idle"
                  /\ Called(c)'
                  /\ LET ev  == Unwrap(event'[c])
                         own == RequestOf(build, integration_key, user_agent, ev)
                     IN  /\ request'[c] = own.request
                         /\ response'[c] = None
                         /\ result'[c] = own.result
                         /\ pc'[c] = IF own.sent THEN "waiting" ELSE "idle"
                         /\ ev.variant \in {"AlertAcknowledge", "AlertResolve"} =>
                                /\ own.sent
                                /\ Unwrap(request'[c]).url = AlertUrl
                                /\ Unwrap(request'[c]).body =
                                       FollowupBody(integration_key, ev.body.dedup_key,
                                                    IF ev.variant = "AlertResolve"
                                                    THEN "resolve" ELSE "acknowledge")
        /\ calls' = calls =>
              \E c \in Callers :
                  /\ pc[c] = "waiting" /\ pc'[c] = "idle"
                  /\ request'[c] = request[c]
                  /\ IsSome(response'[c])
                  /\ result'[c] = Some(Classify(Unwrap(response'[c]))) ]_vars

\* Reached: the client's first call failed without sending anything, and
\* its second call, a resolve for a dedup_key no trigger was sent with, is
\* in flight.
C18_Witness ==
    /\ calls = 2
    /\ posts = 1
    /\ pc[1] = "waiting"
    /\ Unwrap(event[1]).variant = "AlertResolve"
    /\ Unwrap(request[1]).body =
           FollowupBody(integration_key, Unwrap(event[1]).body.dedup_key, "resolve")

-----------------------------------------------------------------------------
\* What send_string gives back when the timeout set on the request runs out
\* before a response arrives.
TimedOut == [synthetic |-> TRUE, status |-> 500, error |-> Some("Io: timed out")]

\* Caller c's call was ended by the timer the library itself put on the
\* request, and returned the transport error that stands for it.
LibraryTimeout(c) ==
    /\ Sent(c) /\ Returned(c)
    /\ Unwrap(request[c]).timeout = TimeoutSecs
    /\ response[c] = Some(TimedOut)
    /\ result[c] = Some([kind |-> "SyntheticUreqError", err |-> Some("Io: timed out")])

(* C19: in the non-blocking build event() imposes no timeout of its own: a *)
(* call whose response never arrives stays pending until the caller        *)
(* cancels it, and never returns a timeout error generated by the library. *)
C19_AsyncNoInternalTimeout ==
    \A c \in Callers : build = "async" => ~LibraryTimeout(c)

-----------------------------------------------------------------------------
\* Task d can enter event() now: the conditions of the call step of
\* NextOneThread other than the bound on the number of calls.
CanEnter(d) == pc[d] = "idle" /\ ThreadFree

(* C20: in the non-blocking build an event() call gives control back to    *)
(* the scheduler at the network I/O of its transport step (and nowhere     *)
(* else), so while a task's call is waiting for its response the           *)
(* scheduler's thread is free to run the other tasks: another task's       *)
(* event() call can make progress.                                         *)
C20_AsyncYieldsAtNetworkIo ==
    \A c, d \in Callers :
        (build = "async" /\ c # d /\ pc[c] = "waiting" /\ pc[d] = "idle") =>
            CanEnter(d)

-----------------------------------------------------------------------------
\* The builds whose event() is the blocking mode: the file eventsv2.rs and
\* the crate with feature "async" off.
BlockingMode(b) == b \in {"eventsv2", "blocking"}

(* C21: in the blocking build every event() call eventually returns: with  *)
(* the classification of the response when one arrives, or with a          *)
(* transport error once the fixed timeout of 300 seconds set on the        *)
(* request runs out without a response; a timeout is never reported as     *)
(* Ok, HttpError or NotAccepted.                                           *)
C21_BlockingCallReturns ==
    /\ \A c \in Callers :
          (BlockingMode(build) /\ pc[c] = "waiting")
              ~> (pc[c] = "idle" /\ Returned(c))
    /\ [](\A c \in Callers :
            (BlockingMode(build) /\ Sent(c)) =>
                /\ Unwrap(request[c]).timeout = 300
                /\ Returned(c) =>
                       /\ IsSome(response[c])
                       /\ result[c] = Some(Classify(Unwrap(response[c])))
                       /\ response[c] = Some(TimedOut) =>
                              Unwrap(result[c]).kind = "SyntheticUreqError")

\* Reached: a call of eventsv2.rs was ended by the timeout and
\* returned the transport error.
C21_Witness ==
    /\ build = "eventsv2"
    /\ pc[1] = "idle"
    /\ response[1] = Some(TimedOut)
    /\ Unwrap(request[1]).timeout = 300
    /\ result[1] = Some([kind |-> "SyntheticUreqError", err |-> Some("Io: timed out")])

-----------------------------------------------------------------------------
\* The wire tokens of the two enumerations.
SeverityToken(s) ==
    CASE s = "Info" -> "\"info\"" [] s = "Warning" -> "\"warning\""
      [] s = "Error" -> "\"error\"" [] s = "Critical" -> "\"critical\""

ActionOfVariant(v) ==
    CASE v = "AlertTrigger" -> "Trigger"
      [] v = "AlertAcknowledge" -> "Acknowledge"
      [] v = "AlertResolve" -> "Resolve"

ActionToken(a) ==
    CASE a = "Trigger" -> "\"trigger\"" [] a = "Acknowledge" -> "\"acknowledge\""
      [] a = "Resolve" -> "\"resolve\""

(* C22: Severity is written as exactly one of the lowercase strings        *)
(* "info", "warning", "error", "critical" and Action as exactly one of     *)
(* "trigger", "acknowledge", "resolve", each variant with its own token:   *)
(* the mapping is injective, and every alert request sent carries the      *)
(* token of its own severity and of its own action.                        *)
C22_EnumTokens ==
    /\ \A s \in Severities : SerializeSeverity(s) = SerOk(SeverityToken(s))
    /\ \A s1, s2 \in Severities :
           SerializeSeverity(s1) = SerializeSeverity(s2) => s1 = s2
    /\ \A a \in {"Trigger", "Acknowledge", "Resolve"} :
           SerializeAction(a) = SerOk(ActionToken(a))
    /\ \A a1, a2 \in {"Trigger", "Acknowledge", "Resolve"} :
           SerializeAction(a1) = SerializeAction(a2) => a1 = a2
    /\ \A c \in Callers :
           (Sent(c) /\ Unwrap(event[c]).variant \in AlertVariants) =>
               LET ev   == Unwrap(event[c])
                   body == Unwrap(request[c]).body
               IN  /\ Contains(body, "\"event_action\":"
                                     \o ActionToken(ActionOfVariant(ev.variant)))
                   /\ ev.variant = "AlertTrigger" =>
                          Contains(body, "\"payload\":{\"severity\":"
                                         \o SeverityToken(ev.body.payload.severity)
                                         \o ",")

\* Reached: a trigger of severity Critical has been sent with the tokens
\* "critical" and "trigger".
C22_Witness ==
    /\ Sent(1)
    /\ Unwrap(event[1]).variant = "AlertTrigger"
    /\ Unwrap(event[1]).body.payload.severity = "Critical"
    /\ Contains(Unwrap(request[1]).body, "\"severity\":\"critical\"")
    /\ Contains(Unwrap(request[1]).body, "\"event_action\":\"trigger\"")

-----------------------------------------------------------------------------
\* The summary and the dedup_key of a caller's event; an event without the
\* field has the empty one.
SummaryOf(ev) ==
    IF ev.variant \in {"Change", "AlertTrigger"} THEN ev.body.payload.summary ELSE ""

DedupKeyOf(ev) ==
    CASE ev.variant = "Change" -> ""
      [] ev.variant = "AlertTrigger" ->
             IF IsSome(ev.body.dedup_key) THEN Unwrap(ev.body.dedup_key) ELSE ""
      [] OTHER -> ev.body.dedup_key

OverLong(ev) ==
    Len(SummaryOf(ev)) > SummaryLimit \/ Len(DedupKeyOf(ev)) > DedupKeyLimit

(* C23: event() performs no length validation: an event whose summary is   *)
(* longer than 1024 characters or whose dedup_key is longer than 255       *)
(* characters is enriched and posted like any other, with the value        *)
(* unmodified (not truncated) and with no local error.                     *)
C23_NoLengthValidation ==
    \A c \in Callers :
        (Called(c) /\ OverLong(Unwrap(event[c]))) =>
            LET ev == Unwrap(event[c])
            IN  /\ Sent(c)
                /\ SummaryOf(ev) # "" =>
                       Contains(Unwrap(request[c]).body,
                                "\"summary\":\"" \o SummaryOf(ev) \o "\"")
                /\ DedupKeyOf(ev) # "" =>
                       Contains(Unwrap(request[c]).body,
                                "\"dedup_key\":\"" \o DedupKeyOf(ev) \o "\"")
                /\ Returned(c) =>
                       /\ Unwrap(result[c]).kind # "SerdeJsonError"
                       /\ result[c] = Some(Classify(Unwrap(response[c])))

\* Reached: a trigger with a summary of 1025 characters and a dedup_key of
\* 256 characters was posted and accepted.
C23_Witness ==
    /\ Returned(1) /\ Sent(1)
    /\ Unwrap(event[1]).variant = "AlertTrigger"
    /\ Len(SummaryOf(Unwrap(event[1]))) = 1025
    /\ Len(DedupKeyOf(Unwrap(event[1]))) = 256
    /\ Contains(Unwrap(request[1]).body, "\"dedup_key\":\"" \o LongDedupKey \o "\"")
    /\ result[1] = Some([kind |-> "Ok"])

-----------------------------------------------------------------------------
\* The caller's custom_details is absent or can be encoded.
CustomDetailsEncodable(ev) ==
    IsNone(CustomDetailsOf(ev)) \/ Unwrap(CustomDetailsOf(ev)).type # "unencodable"

SerdeFailed(c) == Returned(c) /\ Unwrap(result[c]).kind = "SerdeJsonError"

(* C24: envelope serialization fails only when the caller's                *)
(* custom_details cannot be encoded: enrichment itself never fails, and an *)
(* event whose custom_details is absent or encodable, with any timestamp   *)
(* value, never makes event() return SerdeJsonError.                       *)
C24_OnlyCustomDetailsFails ==
    \A c \in Callers :
        Called(c) =>
            LET ev == Unwrap(event[c])
            IN  /\ envelope[c] = Some(Dispatch(integration_key, ev).content)
                /\ CustomDetailsEncodable(ev) => ~SerdeFailed(c)

-----------------------------------------------------------------------------
\* Two responses agree on what do_post looks at: whether a response was
\* obtained (and, if none, the failure) and the status code.
SameStatus(r1, r2) ==
    /\ r1.synthetic = r2.synthetic
    /\ r1.status = r2.status
    /\ r1.error = r2.error

(* C25: the classification of a response depends only on whether a         *)
(* response was obtained and on its status code: any response with the     *)
(* same status and another body or other headers gives the same result,    *)
(* and a 202 response with a non-empty body is Ok(()).                     *)
C25_ClassificationByStatusOnly ==
    \A c \in Callers :
        (Sent(c) /\ Returned(c)) =>
            LET r == Unwrap(response[c])
            IN  /\ \A r2 \in FullResponses :
                       SameStatus(r, r2) => result[c] = Some(Classify(r2))
                /\ (~r.synthetic /\ r.status = 202) => result[c] = Some([kind |-> "Ok"])

\* Reached: a 202 response with a body and headers was classified Ok.
C25_Witness ==
    /\ Sent(1) /\ Returned(1)
    /\ ~Unwrap(response[1]).synthetic
    /\ Unwrap(response[1]).status = 202
    /\ Unwrap(response[1]).body # ""
    /\ Unwrap(response[1]).headers # << >>
    /\ result[1] = Some([kind |-> "Ok"])

-----------------------------------------------------------------------------
(* C26: a failure before any response is obtained is always returned as    *)
(* SyntheticUreqError carrying the underlying cause (the Option inside is  *)
(* Some), never as HttpError or NotAccepted, although the synthetic        *)
(* response that stands for it has a 4xx or 5xx status: synthetic() is     *)
(* tested before error() and before the comparison with 202.               *)
C26_SyntheticTestedFirst ==
    \A c \in Callers :
        (Sent(c) /\ Returned(c) /\ Unwrap(response[c]).synthetic) =>
            LET r   == Unwrap(response[c])
                res == Unwrap(result[c])
            IN  /\ r.status >= 400 /\ r.status < 600
                /\ res.kind = "SyntheticUreqError"
                /\ res.kind \notin {"HttpError", "NotAccepted", "Ok"}
                /\ IsSome(res.err)
                /\ res.err = r.error

\* Reached: a name-resolution failure, which ureq gives status 400, was
\* returned as SyntheticUreqError with its cause.
C26_Witness ==
    /\ Sent(1) /\ Returned(1)
    /\ Unwrap(response[1]).synthetic
    /\ Unwrap(response[1]).status = 400
    /\ result[1] = Some([kind |-> "SyntheticUreqError", err |-> Some("DnsFailed")])

-----------------------------------------------------------------------------
(* The crate root *)

TransportModules == {"eventsv2sync", "eventsv2async"}

\* lib.rs: the mod items of configuration b of the crate, each under its
\* cfg attribute.
CompiledModules(b) ==
    {"private_types", "types"}
    \cup (IF b # "async" THEN {"eventsv2sync"} ELSE {})
    \cup (IF b = "async" THEN {"eventsv2async"} ELSE {})

\* The modules declared in lib.rs whose file the sources hold.  There is no
\* eventsv2sync.rs; eventsv2.rs is named by no mod item.
ModuleFiles == {"private_types", "types", "eventsv2async"}

\* lib.rs: the pub use items; neither carries a cfg attribute.
ReExportedModules == {"eventsv2sync", "types"}

\* The public items of each module whose file the sources hold; a module
\* without a file has none.
PublicItems(m) ==
    CASE m = "eventsv2async" ->
             {"EventsV2", "EventsV2::new", "EventsV2::event", "EventsV2Error",
              "EventsV2Result"}
      [] m = "private_types" ->
             {"SendableChange", "SendableChange::from_change",
              "SendableAlertTrigger", "SendableAlertTrigger::from_alert_trigger",
              "SendableAlertFollowup", "SendableAlertFollowup::new"}
      [] m = "types" ->
             {"Severity", "Link", "Links", "Image", "Images", "Action",
              "ChangePayload", "Change", "AlertTriggerPayload", "AlertTrigger",
              "AlertAcknowledge", "AlertResolve", "Event"}
      [] OTHER -> {}

\* A mod item whose file is not found, and a pub use of a module that is
\* not compiled in (an unresolved import), each stop the build.
CrateBuilds(b) ==
    /\ CompiledModules(b) \subseteq ModuleFiles
    /\ ReExportedModules \subseteq CompiledModules(b)

\* What the crate exports: the public items of the re-exported modules.
CrateExports(b) ==
    IF CrateBuilds(b) THEN UNION {PublicItems(m) : m \in ReExportedModules}
    ELSE {}

(* C27: in each build configuration (feature "async" off or on) exactly    *)
(* one of the two transport implementations is compiled in, and the crate  *)
(* exports the client (EventsV2 with new and event) and the event types.   *)
C27_BuildConfigurations ==
    build \in Crate =>
        /\ Cardinality(CompiledModules(build) \cap TransportModules) = 1
        /\ {"EventsV2", "EventsV2::new", "EventsV2::event"}
               \subseteq CrateExports(build)
        /\ {"Event", "Change", "AlertTrigger", "AlertAcknowledge", "AlertResolve"}
               \subseteq CrateExports(build)

-----------------------------------------------------------------------------
(* Reading a written timestamp back: the instant an RFC 3339 text denotes *)

DigitVal(ch) == CHOOSE n \in 0..9 : ToString(n) = ch

RECURSIVE NumAt(_, _, _)
\* the number written by the n digits of s that start at position i
NumAt(s, i, n) ==
    IF n = 0 THEN 0
    ELSE NumAt(s, i, n - 1) * 10 + DigitVal(SubSeq(s, i + n - 1, i + n - 1))

RECURSIVE Pow10(_)
Pow10(n) == IF n = 0 THEN 1 ELSE 10 * Pow10(n - 1)

\* days since 1970-01-01 of a civil date
DaysFromCivil(y, m, d) ==
    LET yy  == IF m <= 2 THEN y - 1 ELSE y
        era == yy \div 400
        yoe == yy - era * 400
        doy == (153 * (IF m > 2 THEN m - 3 ELSE m + 9) + 2) \div 5 + d - 1
        doe == yoe * 365 + yoe \div 4 - yoe \div 100 + doy
    IN  era * 146097 + doe - 719468

\* The instant denoted by s, a quoted text YYYY-MM-DDTHH:MM:SS[.f](Z|+hh:mm|-hh:mm):
\* seconds and nanoseconds since the epoch, in UTC.
TextInstant(s) ==
    LET days  == DaysFromCivil(NumAt(s, 2, 4), NumAt(s, 7, 2), NumAt(s, 10, 2))
        sod   == NumAt(s, 13, 2) * 3600 + NumAt(s, 16, 2) * 60 + NumAt(s, 19, 2)
        nd    == IF SubSeq(s, 21, 21) = "." THEN DigitsFrom(s, 22) ELSE 0
        nanos == IF nd = 0 THEN 0 ELSE NumAt(s, 22, nd) * Pow10(9 - nd)
        z     == IF nd = 0 THEN 21 ELSE 22 + nd
        mag   == NumAt(s, z + 1, 2) * 3600 + NumAt(s, z + 4, 2) * 60
        off   == CASE SubSeq(s, z, z) = "Z" -> 0
                   [] SubSeq(s, z, z) = "+" -> mag
                   [] SubSeq(s, z, z) = "-" -> 0 - mag
    IN  [secs |-> days * 86400 + sod - off, nanos |-> nanos]

(* C28: the serialized timestamp denotes the same instant as the           *)
(* OffsetDateTime value the caller supplied, for every UTC offset of that  *)
(* value: a value with a non-zero offset is never written as its local     *)
(* date and time followed by "Z".                                          *)
C28_TimestampSameInstant ==
    \A c \in Callers :
        (Sent(c) /\ IsSome(TimestampOf(Unwrap(envelope[c])))) =>
            LET ts   == Unwrap(TimestampOf(Unwrap(envelope[c])))
                text == TimestampText(build, Unwrap(envelope[c]))
            IN  /\ SentWithTimestamp(c)
                /\ TextInstant(text) = [secs |-> ts.secs, nanos |-> ts.nanos]
                /\ ts.offset # 0 =>
                       ~(/\ SubSeq(text, 2, 20) = DateTimeText(ts)
                         /\ EndsWith(text, "Z\""))

-----------------------------------------------------------------------------
(* C29: EventsV2::new never fails: for every integration_key, the empty    *)
(* string and keys that are not 32 characters long included, and every     *)
(* user_agent it returns Ok with a client holding exactly those two        *)
(* values; it validates nothing and performs no I/O, so a fresh client has *)
(* sent nothing, and the client later sends whatever key it was given.     *)
C29_NewNeverFails ==
    /\ \A key \in IntegrationKeys, ua \in UserAgents :
           /\ new(key, ua).ok
           /\ new(key, ua).client = [integration_key |-> key, user_agent |-> ua]
    /\ integration_key \in IntegrationKeys
    /\ user_agent \in UserAgents
    /\ calls = 0 =>
           /\ posts = 0
           /\ \A c \in Callers : pc[c] = "idle" /\ IsNone(request[c]) /\ IsNone(result[c])
    /\ \A c \in Callers :
           Sent(c) => StartsWith(Unwrap(request[c]).body,
                                 "{\"routing_key\":\"" \o integration_key \o "\",")

\* Reached: a client constructed with the empty key and no user agent has
\* posted an event under that key.
C29_Witness ==
    /\ integration_key = ""
    /\ user_agent = None
    /\ Sent(1)
    /\ StartsWith(Unwrap(request[1]).body, "{\"routing_key\":\"\",")
    /\ Len(Unwrap(request[1]).headers) = 2

-----------------------------------------------------------------------------
(* C30: event() on an AlertAcknowledge or AlertResolve never returns       *)
(* SerdeJsonError: the follow-up envelope holds only two strings and an    *)
(* Action, so it always serializes and a POST is always attempted, and the *)
(* only results are Ok(()), SyntheticUreqError, HttpError and NotAccepted. *)
C30_FollowupAlwaysPosted ==
    \A c \in Callers :
        (Called(c) /\ Unwrap(event[c]).variant \in {"AlertAcknowledge", "AlertResolve"}) =>
            LET e == Unwrap(envelope[c])
            IN  /\ e.kind = "SendableAlertFollowup"
                /\ DOMAIN e = {"kind", "routing_key", "dedup_key", "event_action"}
                /\ to_string(build, e).ok
                /\ Sent(c)
                /\ IF Returned(c)
                   THEN /\ IsSome(response[c])
                        /\ Unwrap(result[c]).kind \in
                               {"Ok", "SyntheticUreqError", "HttpError", "NotAccepted"}
                   ELSE pc[c] = "waiting"

\* Reached: a resolve was posted and the service answered 404.
C30_Witness ==
    /\ Sent(1) /\ Returned(1)
    /\ Unwrap(event[1]).variant = "AlertResolve"
    /\ result[1] = Some([kind |-> "HttpError", code |-> 404])

====
